---- MODULE Spec2Model ----
(***************************************************************************)
(* Model of multiSite_webscraping.py: URL discovery, the per-URL scraping  *)
(* loop with its browser fallback, the generic page parser, the            *)
(* percent/time snippet miner and the numbers table.                       *)
(*                                                                         *)
(* Text is a sequence of one-character strings, so that whitespace         *)
(* normalisation, lower-casing, slicing and the regular expressions are    *)
(* computed character by character as the code computes them.  Python's    *)
(* None is the one-element sequence None, which no text equals.            *)
(***************************************************************************)
EXTENDS Integers, Sequences, FiniteSets, TLC

VARIABLES
    \* extract_percent_and_time_snippets, called on its own
    m_pc, m_text, m_window, m_max_hits, m_trace, m_hits,
    \* extract_body_generic, called on its own
    b_pc, b_soup, b_body,
    \* build_numbers_table, called on its own
    t_pc, t_rows, t_cap, t_out,
    \* the program: __main__, discover_urls_gdelt, scrape_urls
    pc,             \* where the program is
    fallback,       \* USE_PLAYWRIGHT_FALLBACK
    max_urls, retries, d_query, d_attempt, all_urls, seen,   \* discover_urls_gdelt's frame
    d_sent,         \* the requests sent so far for the current query
    d_total,        \* the requests sent so far for all queries
    d_last,         \* how the last request ended ("none" before the first)
    urls,           \* what discover_urls_gdelt returned
    idx, status, html, results,                               \* scrape_urls' frame
    direct,         \* what fetch_with_requests returned for the current URL (0: nothing yet)
    causes,         \* per record, why it is what it is
    fetch_log,      \* the page fetches started so far, <<fetcher, index of the URL>>
    numbers         \* build_numbers_table's result

mineVars == <<m_pc, m_text, m_window, m_max_hits, m_trace, m_hits>>
bodyVars == <<b_pc, b_soup, b_body>>
tableVars == <<t_pc, t_rows, t_cap, t_out>>

discoverVars == <<max_urls, retries, d_query, d_attempt, all_urls, seen, d_sent, d_total, d_last>>
scrapeVars == <<idx, status, html, results, direct, causes, fetch_log>>
mainVars == <<pc, fallback, discoverVars, urls, scrapeVars, numbers>>
\* the variables of the functions called on their own
aloneVars == <<mineVars, bodyVars, tableVars>>

vars == <<mineVars, bodyVars, tableVars, mainVars>>

----------------------------------------------------------------------------
(* Characters and strings *)

None == <<"<None>">>

Min(S) == CHOOSE x \in S : \A y \in S : x <= y
Max2(a, b) == IF a >= b THEN a ELSE b
Min2(a, b) == IF a <= b THEN a ELSE b

Digits == {"0", "1", "2", "3", "4", "5", "6", "7", "8", "9"}
UpperCase == <<"A","B","C","D","E","F","G","H","I","J","K","L","M",
               "N","O","P","Q","R","S","T","U","V","W","X","Y","Z">>
LowerCase == <<"a","b","c","d","e","f","g","h","i","j","k","l","m",
               "n","o","p","q","r","s","t","u","v","w","x","y","z">>
Whitespace == {" ", "\n", "\t"}

UpperSet == {UpperCase[i] : i \in 1..26}
LowerSet == {LowerCase[i] : i \in 1..26}
IsUpper(c) == c \in UpperSet
IsLowerLetter(c) == c \in LowerSet
\* \w of the re module
IsWord(c) == c \in Digits \/ IsUpper(c) \/ IsLowerLetter(c) \/ c = "_"
\* str.lower() on one character
LowerChar(c) == IF IsUpper(c) THEN LowerCase[CHOOSE i \in 1..26 : UpperCase[i] = c] ELSE c
\* str.lower()
Lower(s) == [i \in 1..Len(s) |-> LowerChar(s[i])]

\* Python's s[a:b] for 0 <= a, 0 <= b
Slice(s, a, b) == SubSeq(s, a + 1, Min2(b, Len(s)))

\* "needle in hay" on strings
Contains(hay, needle) ==
    \E i \in 1..(Len(hay) - Len(needle) + 1) :
        /\ hay[i] = needle[1]
        /\ SubSeq(hay, i, i + Len(needle) - 1) = needle

RECURSIVE CollapseWs(_)
\* re.sub(r"\s+", " ", s)
CollapseWs(s) ==
    IF s = <<>> THEN <<>>
    ELSE IF s[1] \in Whitespace
         THEN IF Len(s) > 1 /\ s[2] \in Whitespace
              THEN CollapseWs(Tail(s))
              ELSE <<" ">> \o CollapseWs(Tail(s))
         ELSE <<s[1]>> \o CollapseWs(Tail(s))

RECURSIVE Strip(_)
\* str.strip()
Strip(s) ==
    IF s = <<>> THEN <<>>
    ELSE IF s[1] \in Whitespace THEN Strip(Tail(s))
    ELSE IF s[Len(s)] \in Whitespace THEN Strip(SubSeq(s, 1, Len(s) - 1))
    ELSE s

\* clean(): collapse whitespace, trim, map the empty string to None
clean(s) ==
    IF s = None THEN None
    ELSE LET c == Strip(CollapseWs(s)) IN IF c = <<>> THEN None ELSE c

\* Python truthiness of an optional string
Truthy(s) == s # None /\ s # <<>>
\* a or b
Or(a, b) == IF Truthy(a) THEN a ELSE b

----------------------------------------------------------------------------
(* The regular expressions of PERCENT_PATTERNS and TIME_PATTERNS.          *)
(* Each is  \b \d+ (\.\d+)? \s* (alt1|alt2|...) [\b]  under re.IGNORECASE. *)
(* lits lists the alternatives in the order the regex engine tries them    *)
(* (a greedy "s?" tries the longer word first); wb says whether the        *)
(* pattern ends in \b.  No alternative starts with a digit, "." or         *)
(* whitespace, so the greedy number and \s* never give anything back.      *)

PERCENT_PATTERNS ==
    << [lits |-> << <<"%">> >>, wb |-> FALSE],
       [lits |-> << <<"p","e","r","c","e","n","t">>,
                    <<"p","e","r","c","e","n","t","a","g","e">> >>, wb |-> TRUE],
       [lits |-> << <<"p","e","r","c","e","n","t","a","g","e"," ","p","o","i","n","t","s">>,
                    <<"p","p">> >>, wb |-> TRUE] >>

TIME_PATTERNS ==
    << [lits |-> << <<"h","o","u","r","s">>, <<"h","o","u","r">>,
                    <<"h","r","s">>, <<"h","r">> >>, wb |-> TRUE],
       [lits |-> << <<"m","i","n","u","t","e","s">>, <<"m","i","n","u","t","e">>,
                    <<"m","i","n","s">>, <<"m","i","n">> >>, wb |-> TRUE] >>

CHANGE_KEYWORDS ==
  << <<"i","n","c","r","e","a","s","e">>,
     <<"i","n","c","r","e","a","s","e","d">>,
     <<"i","n","c","r","e","a","s","e","s">>,
     <<"i","m","p","r","o","v","e">>,
     <<"i","m","p","r","o","v","e","d">>,
     <<"i","m","p","r","o","v","e","s">>,
     <<"i","m","p","r","o","v","e","m","e","n","t">>,
     <<"d","e","c","r","e","a","s","e">>,
     <<"d","e","c","r","e","a","s","e","d">>,
     <<"r","e","d","u","c","e","s">>,
     <<"r","e","d","u","c","e","d">>,
     <<"r","e","d","u","c","t","i","o","n">>,
     <<"s","a","v","e","d">>,
     <<"s","a","v","e">>,
     <<"s","a","v","i","n","g">>,
     <<"c","u","t">>,
     <<"c","u","t","s">>,
     <<"c","u","t","t","i","n","g">>,
     <<"f","a","s","t","e","r">>,
     <<"s","l","o","w","e","r">>,
     <<"l","e","s","s"," ","t","i","m","e">>,
     <<"m","o","r","e"," ","t","i","m","e">>,
     <<"t","i","m","e"," ","s","a","v","e","d">>,
     <<"d","o","c","u","m","e","n","t","a","t","i","o","n">>,
     <<"b","u","r","d","e","n">>,
     <<"w","o","r","k","l","o","a","d">>,
     <<"p","r","o","d","u","c","t","i","v","i","t","y">>,
     <<"e","f","f","i","c","i","e","n","t">>,
     <<"e","f","f","i","c","i","e","n","c","y">> >>

\* \b between t[i-1] and t[i] (i is the 1-based index of the next character)
WordBoundary(t, i) ==
    (i > 1 /\ i - 1 <= Len(t) /\ IsWord(t[i - 1])) # (i >= 1 /\ i <= Len(t) /\ IsWord(t[i]))

RECURSIVE DigitsEnd(_, _)
\* index after the longest run of digits starting at i (i itself when there is none)
DigitsEnd(t, i) == IF i <= Len(t) /\ t[i] \in Digits THEN DigitsEnd(t, i + 1) ELSE i

\* \d+(\.\d+)? at i: the index after it, 0 when it does not match
NumberEnd(t, i) ==
    LET j == DigitsEnd(t, i) IN
    IF j = i THEN 0
    ELSE IF j <= Len(t) /\ t[j] = "." /\ DigitsEnd(t, j + 1) > j + 1
         THEN DigitsEnd(t, j + 1)
         ELSE j

RECURSIVE SpacesEnd(_, _)
\* \s* at i
SpacesEnd(t, i) == IF i <= Len(t) /\ t[i] \in Whitespace THEN SpacesEnd(t, i + 1) ELSE i

\* a literal at i, ignoring case
LiteralAt(t, i, lit) ==
    /\ i + Len(lit) - 1 <= Len(t)
    /\ \A k \in 1..Len(lit) : LowerChar(t[i + k - 1]) = LowerChar(lit[k])

\* the alternation (and the closing \b) at i: the index after it, 0 when none matches
SuffixEnd(pat, t, i) ==
    LET ok(a) == /\ LiteralAt(t, i, pat.lits[a])
                 /\ (pat.wb => WordBoundary(t, i + Len(pat.lits[a])))
        S == {a \in 1..Len(pat.lits) : ok(a)}
    IN IF S = {} THEN 0 ELSE i + Len(pat.lits[Min(S)])

\* the whole pattern anchored at i: the index after the match, 0 when it does not match
MatchAt(pat, t, i) ==
    LET n == NumberEnd(t, i) IN
    IF n = 0 \/ ~WordBoundary(t, i) THEN 0 ELSE SuffixEnd(pat, t, SpacesEnd(t, n))

RECURSIVE finditer(_, _, _)
\* re.finditer(pat, text): the non-overlapping matches from index from on, left to
\* right, each [s |-> first index, e |-> index after the match] (1-based)
finditer(pat, t, from) ==
    IF from > Len(t) THEN <<>>
    ELSE LET e == MatchAt(pat, t, from) IN
         IF e = 0 THEN finditer(pat, t, from + 1)
         ELSE <<[s |-> from, e |-> e]>> \o finditer(pat, t, e)

\* snippet_has_change_context
snippet_has_change_context(snippet) ==
    LET t == IF Truthy(snippet) THEN Lower(snippet) ELSE <<>> IN
    \E k \in 1..Len(CHANGE_KEYWORDS) : Contains(t, CHANGE_KEYWORDS[k])

\* the matches of one pattern, tagged with its type and its place in the list
PatternItems(type, pats, p, text) ==
    LET ms == finditer(pats[p], text, 1) IN
    [k \in 1..Len(ms) |-> [metric_type |-> type, pat |-> p, s |-> ms[k].s, e |-> ms[k].e]]

\* a variant that scans the time patterns before the percent patterns
MineItemsTimeFirst(text) ==
    PatternItems("time", TIME_PATTERNS, 1, text)
    \o PatternItems("time", TIME_PATTERNS, 2, text)
    \o PatternItems("percent", PERCENT_PATTERNS, 1, text)
    \o PatternItems("percent", PERCENT_PATTERNS, 2, text)
    \o PatternItems("percent", PERCENT_PATTERNS, 3, text)

\* the order in which the two nested loops visit the matches: for each percent
\* pattern in list order its matches left to right, then the same for time
MineItems(text) ==
    PatternItems("percent", PERCENT_PATTERNS, 1, text)
    \o PatternItems("percent", PERCENT_PATTERNS, 2, text)
    \o PatternItems("percent", PERCENT_PATTERNS, 3, text)
    \o PatternItems("time", TIME_PATTERNS, 1, text)
    \o PatternItems("time", TIME_PATTERNS, 2, text)

\* the context window of one match: clean(text[start:end])
Snippet(text, it, window) ==
    LET start == Max2(0, (it.s - 1) - window)
        end == Min2(Len(text), (it.e - 1) + window)
    IN clean(Slice(text, start, end))

\* the test guarding hits.append
Keeps(snippet) == Truthy(snippet) /\ snippet_has_change_context(snippet)

\* the early return: if len(hits) >= max_hits: return hits
CapReached(hits, max_hits) == Len(hits) >= max_hits

RECURSIVE MineScan(_, _, _, _, _, _)
\* the loop bodies, match k onwards.  at and pat record where a hit was found
\* (m.start() and the pattern's place); the code's hit has the other three fields.
MineScan(text, window, max_hits, items, k, hits) ==
    IF k > Len(items) THEN hits
    ELSE LET it == items[k]
             snippet == Snippet(text, it, window)
             hits2 == IF Keeps(snippet)
                      THEN Append(hits, [metric_type |-> it.metric_type,
                                         value |-> SubSeq(text, it.s, it.e - 1),
                                         snippet |-> snippet,
                                         at |-> it.s - 1,
                                         pat |-> it.pat])
                      ELSE hits
         IN IF CapReached(hits2, max_hits) THEN hits2
            ELSE MineScan(text, window, max_hits, items, k + 1, hits2)

\* extract_percent_and_time_snippets with each hit's position kept
MineTrace(text, window, max_hits) ==
    IF ~Truthy(text) THEN <<>>
    ELSE MineScan(text, window, max_hits, MineItems(text), 1, <<>>)

\* the hits as the code returns them: metric_type, value, snippet
HitsOf(tr) ==
    [k \in 1..Len(tr) |-> [metric_type |-> tr[k].metric_type,
                           value |-> tr[k].value,
                           snippet |-> tr[k].snippet]]

\* extract_percent_and_time_snippets
extract_percent_and_time_snippets(text, window, max_hits) ==
    HitsOf(MineTrace(text, window, max_hits))

----------------------------------------------------------------------------
(* extract_body_generic.  An element is a sequence of child nodes in        *)
(* document order, each [tag, strings]: a <p> with its text strings, or any *)
(* other node ("text") with its own.  A soup maps each selector of the      *)
(* containers list to the first element matching it, or to NoElement.       *)

NoElement == <<[tag |-> "<none>", strings |-> <<>>]>>

\* the containers list: article, main article, main, .article-body,
\* .article-content, .entry-content, #article-body
NumContainerSelectors == 7

RECURSIVE JoinWith(_, _)
\* sep.join(texts)
JoinWith(sep, texts) ==
    IF texts = <<>> THEN <<>>
    ELSE IF Len(texts) = 1 THEN texts[1]
    ELSE texts[1] \o sep \o JoinWith(sep, Tail(texts))

NonEmpty(x) == x # <<>>

\* get_text(" ", strip=True) over text strings: each stripped, the empty ones
\* skipped, the rest joined by one space
GetText(strings) ==
    JoinWith(<<" ">>, SelectSeq([i \in 1..Len(strings) |-> Strip(strings[i])], NonEmpty))

RECURSIVE AllStrings(_)
\* the text strings of an element, in document order
AllStrings(el) ==
    IF el = <<>> THEN <<>> ELSE el[1].strings \o AllStrings(Tail(el))

IsParagraph(node) == node.tag = "p"

\* container.select("p")
SelectP(el) == SelectSeq(el, IsParagraph)

\* the for loop over containers: the first selector with a match
FirstContainer(soup) ==
    LET S == {k \in 1..NumContainerSelectors : soup[k] # NoElement} IN
    IF S = {} THEN NoElement ELSE soup[Min(S)]

BoilerplateMarkers ==
    { <<"a","d","v","e","r","t","i","s","e","m","e","n","t">>,
      <<"s","u","b","s","c","r","i","b","e">>,
      <<"s","i","g","n"," ","u","p">> }

\* the two tests of the paragraph loop: "if not t" and the boilerplate set
KeepsParagraph(t) == t # None /\ Lower(t) \notin BoilerplateMarkers

\* re.search(r"\bword\b", t) for a literal word
SearchWord(t, word) ==
    \E i \in 1..(Len(t) - Len(word) + 1) :
        /\ t[i] = word[1]
        /\ SubSeq(t, i, i + Len(word) - 1) = word
        /\ WordBoundary(t, i)
        /\ WordBoundary(t, i + Len(word))

\* re.search(r"\bvia getty\b|\b/getty\b", t.lower())
IsPhotoCredit(t) ==
    \/ SearchWord(Lower(t), <<"v","i","a"," ","g","e","t","t","y">>)
    \/ SearchWord(Lower(t), <<"/","g","e","t","t","y">>)

\* a variant that drops a leading photo credit even when it is the only paragraph
DropsLeadingCreditAlways(texts) == IsPhotoCredit(texts[1])

\* if len(texts) > 1 and re.search(...): texts = texts[1:]
DropsLeadingCredit(texts) == Len(texts) > 1 /\ IsPhotoCredit(texts[1])

\* the texts list after the paragraph loop
RetainedParagraphs(container) ==
    LET ps == SelectP(container)
        ts == [i \in 1..Len(ps) |-> clean(GetText(ps[i].strings))]
    IN SelectSeq(ts, KeepsParagraph)

\* extract_body_generic
extract_body_generic(soup) ==
    LET container == FirstContainer(soup) IN
    IF container = NoElement THEN None
    ELSE LET texts == RetainedParagraphs(container) IN
         IF texts = <<>> THEN clean(GetText(AllStrings(container)))
         ELSE IF DropsLeadingCredit(texts) THEN JoinWith(<<"\n", "\n">>, Tail(texts))
         ELSE JoinWith(<<"\n", "\n">>, texts)

(* Inputs: elements of a few nodes, placed in a soup *)

MaxNodes == 3

BodyNodes ==
    { [tag |-> "p", strings |-> << <<"A"," "," ","b","\n">> >>],
      [tag |-> "p", strings |-> << <<"C","d">> >>],
      [tag |-> "p", strings |-> << <<" ","\n">> >>],
      [tag |-> "p", strings |-> << <<"S","u","b","s","c","r","i","b","e">> >>],
      [tag |-> "p", strings |-> << <<"P","i","c"," ">>, <<"v","i","a"," ","G","e","t","t","y">> >>],
      [tag |-> "p", strings |-> << <<"A","P","/","G","e","t","t","y">> >>],
      [tag |-> "text", strings |-> << <<"R","a","w",".">> >>] }

RECURSIVE ElementsOf(_)
ElementsOf(n) ==
    IF n = 0 THEN {<<>>}
    ELSE LET E == ElementsOf(n - 1) IN E \cup {Append(e, x) : e \in E, x \in BodyNodes}

BodyElements == ElementsOf(MaxNodes)

DecoyElement == <<[tag |-> "p", strings |-> << <<"D","e","c","o","y">> >>]>>

\* the soup in which el is the first match of selector i and DecoyElement that of
\* selector j (0: no such selector)
SoupWith(el, i, j) ==
    [k \in 1..NumContainerSelectors |->
        IF k = i THEN el ELSE IF k = j THEN DecoyElement ELSE NoElement]

\* <<selector of the element, selector of the decoy>>
SelectorCases == {<<0, 0>>, <<1, 0>>, <<7, 0>>, <<3, 6>>, <<6, 3>>}

BodySoups == {SoupWith(el, c[1], c[2]) : el \in BodyElements, c \in SelectorCases}

BodyIdle == b_pc = "idle" /\ b_soup = SoupWith(<<>>, 0, 0) /\ b_body = None

BodyInit ==
    /\ b_pc = "call"
    /\ b_soup \in BodySoups
    /\ b_body = None

ExtractBody ==
    /\ b_pc = "call"
    /\ b_body' = extract_body_generic(b_soup)
    /\ b_pc' = "returned"
    /\ UNCHANGED b_soup


----------------------------------------------------------------------------
(* Inputs of the miner: texts built from a few words *)

MaxChunks == 3
MaxHitsBound == 3

Chunks ==
    { <<"C","u","t"," ">>,
      <<"5","%"," ">>,
      <<"7"," ","p","p"," ">>,
      <<"1",".","5"," ","p","e","r","c","e","n","t"," ">>,
      <<"s","a","v","e","d"," ","2"," ","h","r","s"," ">>,
      <<"9","m","i","n","\n">>,
      <<"a","b"," ">> }

RECURSIVE TextsOfChunks(_)
TextsOfChunks(n) ==
    IF n = 0 THEN {<<>>}
    ELSE LET T == TextsOfChunks(n - 1) IN
         T \cup {t \o c : t \in T, c \in Chunks}

MineTexts == TextsOfChunks(MaxChunks)
MineWindows == {0, 5, 90}

\* the miner is not called
MineIdle ==
    /\ m_pc = "idle" /\ m_text = <<>> /\ m_window = 0 /\ m_max_hits = 0
    /\ m_trace = <<>> /\ m_hits = <<>>

MineInit ==
    /\ m_pc = "call"
    /\ m_text \in MineTexts
    /\ m_window \in MineWindows
    /\ m_max_hits \in 0..MaxHitsBound
    /\ m_trace = <<>>
    /\ m_hits = <<>>

Mine ==
    /\ m_pc = "call"
    /\ m_trace' = MineTrace(m_text, m_window, m_max_hits)
    /\ m_hits' = HitsOf(m_trace')
    /\ m_pc' = "returned"
    /\ UNCHANGED <<m_text, m_window, m_max_hits>>

----------------------------------------------------------------------------
(* Pages, records and parse_page_generic.  A page is what BeautifulSoup      *)
(* finds in one html document: the raw text of each element or attribute the *)
(* parser looks up (None when the document has none) and the soup of content *)
(* containers.  ld_author and ld_date are the author name and the date of    *)
(* the first article-like JSON-LD object.                                    *)

\* urlparse(url).netloc for scheme://netloc/...: what follows the scheme's "//",
\* up to the next "/", "?" or "#"
Netloc(url) ==
    LET C == {i \in 1..Len(url) : url[i] = ":"}
        a == IF C = {} THEN 1 ELSE Min(C) + 1
    IN IF a + 1 <= Len(url) /\ url[a] = "/" /\ url[a + 1] = "/"
       THEN LET E == {i \in (a + 2)..Len(url) : url[i] \in {"/", "?", "#"}}
                e == IF E = {} THEN Len(url) + 1 ELSE Min(E)
            IN SubSeq(url, a + 2, e - 1)
       ELSE <<>>

\* get_domain
get_domain(url) == Lower(Netloc(url))

\* meta_content: the content attribute cleaned, None without the tag or with an
\* empty content
meta_content(raw) == IF Truthy(raw) THEN clean(raw) ELSE None

\* first_text with one selector: the element's text cleaned, None without the element
first_text(raw) == IF raw = None THEN None ELSE clean(GetText(<<raw>>))

\* parse_json_ld_for_article: clean(author_name), clean(date_published)
parse_json_ld_for_article(page) == [author |-> clean(page.ld_author), date |-> clean(page.ld_date)]

\* re.search(r"Published:\s*(...)", page_text), then clean(m.group(1)); runs only
\* when no other date was found
PublishedFallback(page) ==
    IF page.published_in_text = None THEN None ELSE clean(page.published_in_text)

\* parse_page_generic
parse_page_generic(page, url) ==
    LET title == Or(Or(first_text(page.h1), meta_content(page.og_title)), first_text(page.title))
        description == Or(meta_content(page.meta_description), meta_content(page.og_description))
        ld == parse_json_ld_for_article(page)
        author == Or(Or(ld.author, meta_content(page.meta_author)), meta_content(page.article_author))
        published == Or(Or(Or(ld.date, meta_content(page.article_published_time)),
                           meta_content(page.pubdate)), meta_content(page.date))
        published2 == IF ~Truthy(published) /\ PublishedFallback(page) # None
                      THEN PublishedFallback(page) ELSE published
    IN [url |-> url, site |-> get_domain(url), title |-> title, author |-> author,
        published_date |-> published2, description |-> description,
        body |-> extract_body_generic(page.soup), error |-> None]

\* a variant whose error record keeps a title
ErrorRecordWithTitle(url, msg) ==
    [url |-> url, site |-> get_domain(url), title |-> url, author |-> None,
     published_date |-> None, description |-> None, body |-> None, error |-> msg]

\* the record scrape_urls appends for a failed URL
ErrorRecord(url, msg) ==
    [url |-> url, site |-> get_domain(url), title |-> None, author |-> None,
     published_date |-> None, description |-> None, body |-> None, error |-> msg]

(* build_numbers_table *)

\* the window and max_hits build_numbers_table passes to the miner
TableWindow == 90
TableMaxHits == 80

\* f"{r.get('description') or ''}\n\n{r.get('body') or ''}"
Combined(r) ==
    (IF Truthy(r.description) THEN r.description ELSE <<>>)
    \o <<"\n", "\n">>
    \o (IF Truthy(r.body) THEN r.body ELSE <<>>)

\* a variant that keeps one snippet more than the cap
TakeFirstOneMore(snippets, n) == SubSeq(snippets, 1, Min2(n + 1, Len(snippets)))

\* snippets[:n] for n >= 0
TakeFirst(snippets, n) == SubSeq(snippets, 1, Min2(n, Len(snippets)))

\* the dict appended to out for snippet s of record r
NumbersRow(r, s) ==
    [url |-> r.url, site |-> r.site, title |-> r.title, published_date |-> r.published_date,
     metric_type |-> s.metric_type, value |-> s.value, context_snippet |-> s.snippet]

\* the rows one record adds to out
RowsOfRecord(r, max_snippets_per_url) ==
    IF Truthy(r.error) THEN <<>>
    ELSE LET snippets == extract_percent_and_time_snippets(Combined(r), TableWindow, TableMaxHits)
             kept == TakeFirst(snippets, max_snippets_per_url)
         IN [k \in 1..Len(kept) |-> NumbersRow(r, kept[k])]

RECURSIVE build_numbers_table(_, _)
\* build_numbers_table
build_numbers_table(rows, max_snippets_per_url) ==
    IF rows = <<>> THEN <<>>
    ELSE RowsOfRecord(rows[1], max_snippets_per_url)
         \o build_numbers_table(Tail(rows), max_snippets_per_url)

(* Inputs: pages and URLs *)

Url1 == <<"h","t","t","p",":","/","/","A",".","i","o","/","1">>
Url2 == <<"h","t","t","p",":","/","/","b",".","i","o","/","2">>

\* a page with none of the signals and no container
BlankPage ==
    [h1 |-> None, og_title |-> None, title |-> None, meta_description |-> None,
     og_description |-> None, ld_author |-> None, ld_date |-> None, meta_author |-> None,
     article_author |-> None, article_published_time |-> None, pubdate |-> None,
     date |-> None, published_in_text |-> None, soup |-> SoupWith(<<>>, 0, 0)]

\* a heading, a description with a hit, JSON-LD author and date, a body with hits
PageArticle ==
    [BlankPage EXCEPT !.h1 = <<" ","A","i"," "," ","n","e","w","s"," ">>,
                      !.og_title = <<"O","g">>,
                      !.meta_description = <<"C","u","t"," ","5","%">>,
                      !.ld_author = <<"A","l">>,
                      !.ld_date = <<"2","0","2","4">>,
                      !.soup = SoupWith(<<[tag |-> "p", strings |-> << <<"P","i","c">> , <<"v","i","a"," ","G","e","t","t","y">> >>],
                                          [tag |-> "p", strings |-> << <<"s","a","v","e","d"," ","2"," ","h","r","s">> >>],
                                          [tag |-> "p", strings |-> << <<"u","p"," ","7"," ","p","p">> >>]>>, 1, 3)]

\* only a <title>, a date in the page text, no content container
PageNoContainer ==
    [BlankPage EXCEPT !.title = <<"T">>,
                      !.published_in_text = <<"1"," ","J","a","n"," ","2","0","2","4">>]

\* a body with seven hits
PageManyHits ==
    [BlankPage EXCEPT !.og_title = <<"O","g">>,
                      !.article_published_time = <<"2","0","2","4">>,
                      !.soup = SoupWith(<<[tag |-> "p", strings |-> << <<"C","u","t"," ","1","%"," ","2","%"," ","3","%"," ","4","%"," ","5","%"," ","6","%"," ","9"," ","m","i","n">> >>]>>, 3, 0)]

(* Inputs of build_numbers_table: records scrape_urls can produce *)

MaxRows == 2
MaxCap == 6

TableRecords ==
    { parse_page_generic(PageArticle, Url1),
      parse_page_generic(PageNoContainer, Url2),
      parse_page_generic(PageManyHits, Url2),
      ErrorRecord(Url1, <<"H","T","T","P"," ","4","0","4">>),
      ErrorRecord(Url2, <<>>) }

RECURSIVE RowListsOf(_)
RowListsOf(n) ==
    IF n = 0 THEN {<<>>}
    ELSE LET R == RowListsOf(n - 1) IN R \cup {Append(r, x) : r \in R, x \in TableRecords}

TableIdle == t_pc = "idle" /\ t_rows = <<>> /\ t_cap = 0 /\ t_out = <<>>

TableInit ==
    /\ t_pc = "call"
    /\ t_rows \in RowListsOf(MaxRows)
    /\ t_cap \in 0..MaxCap
    /\ t_out = <<>>

BuildTable ==
    /\ t_pc = "call"
    /\ t_out' = build_numbers_table(t_rows, t_cap)
    /\ t_pc' = "returned"
    /\ UNCHANGED <<t_rows, t_cap>>

----------------------------------------------------------------------------
(* discover_urls_gdelt *)

\* len(queries_to_try)
NumQueries == 4

\* an article whose "url" makes the loop body raise (not a dict, not a string)
Malformed == <<"<malformed>">>

\* a variant that allows one attempt more than retries
MoreAttemptsOffByOne(attempt, n) == attempt <= n

\* for attempt in range(1, retries + 1): is there an attempt after this one
MoreAttempts(attempt, n) == attempt < n

RECURSIVE ProcessArticles(_, _, _, _)
\* the loop over data["articles"], from the lists so far: the lists afterwards and
\* how the loop ended ("full": return all_urls; "raised"; "end": fell through)
ProcessArticles(arts, all, sn, cap) ==
    IF arts = <<>> THEN [all_urls |-> all, seen |-> sn, how |-> "end"]
    ELSE IF arts[1] = Malformed THEN [all_urls |-> all, seen |-> sn, how |-> "raised"]
    ELSE IF ~Truthy(arts[1]) THEN ProcessArticles(Tail(arts), all, sn, cap)
    ELSE LET u == Strip(arts[1]) IN
         IF u \in sn THEN ProcessArticles(Tail(arts), all, sn, cap)
         ELSE IF Len(all) + 1 >= cap
              THEN [all_urls |-> Append(all, u), seen |-> sn \cup {u}, how |-> "full"]
              ELSE ProcessArticles(Tail(arts), Append(all, u), sn \cup {u}, cap)

\* one request of discover_urls_gdelt and everything up to the next request, the
\* return or the RuntimeError.  o is what the request met: "fail" (requests.get or
\* r.json() raises, a status other than 200, a body that is not JSON) or "ok" with
\* the articles of the response.
DiscoverStep(o) ==
    LET got == IF o.kind = "ok"
               THEN ProcessArticles(o.articles, all_urls, seen, max_urls)
               ELSE [all_urls |-> all_urls, seen |-> seen, how |-> "raised"]
        \* the except branch, with another attempt left for this query
        again == got.how = "raised" /\ MoreAttempts(d_attempt, retries)
        \* after the attempts of this query: break, or go on to the next query
        more == Len(got.all_urls) < max_urls /\ d_query < NumQueries
    IN /\ d_total' = d_total + 1
       /\ d_last' = got.how
       /\ d_sent' = IF got.how # "full" /\ ~again /\ more THEN 0 ELSE d_sent + 1
       /\ all_urls' = got.all_urls
       /\ seen' = got.seen
       /\ IF got.how = "full"
          THEN /\ pc' = "discovered"
               /\ urls' = got.all_urls
               /\ UNCHANGED <<d_query, d_attempt>>
          ELSE IF again
          THEN /\ pc' = "discover"
               /\ d_attempt' = d_attempt + 1
               /\ UNCHANGED <<d_query, urls>>
          ELSE IF more
          THEN /\ pc' = "discover"
               /\ d_query' = d_query + 1
               /\ d_attempt' = 1
               /\ UNCHANGED urls
          ELSE IF got.all_urls = <<>>
          THEN /\ pc' = "fatal"
               /\ UNCHANGED <<d_query, d_attempt, urls>>
          ELSE /\ pc' = "discovered"
               /\ urls' = Slice(got.all_urls, 0, max_urls)
               /\ UNCHANGED <<d_query, d_attempt>>

----------------------------------------------------------------------------
(* scrape_urls.  html is the name of a document: "" is the empty body.      *)

\* BeautifulSoup(html, "html.parser") for the documents the fetchers return
Document(h) ==
    IF h = "article" THEN PageArticle
    ELSE IF h = "nocontainer" THEN PageNoContainer
    ELSE BlankPage

\* str(e) of the exceptions the fetchers and the parser raise
FetchMessage == <<"t","i","m","e","d"," ","o","u","t">>
RenderMessage == <<"n","o"," ","b","r","o","w","s","e","r">>
ParseMessage == <<"b","a","d"," ","m","a","r","k","u","p">>

\* the document on which the parser raises
RejectedMarkup == "rejected"

\* str(int)
RECURSIVE IntStr(_)
IntStr(n) ==
    LET d == <<"0", "1", "2", "3", "4", "5", "6", "7", "8", "9">>[(n % 10) + 1] IN
    IF n < 10 THEN <<d>> ELSE IntStr(n \div 10) \o <<d>>

\* f"HTTP {status}"
HttpError(st) == <<"H", "T", "T", "P", " ">> \o IntStr(st)

\* a variant that renders every page that did not come back with 200
NeedsFallbackAnyFailure(st, enabled) == st # 200 /\ enabled

\* if status in (403, 429) and USE_PLAYWRIGHT_FALLBACK
NeedsFallback(st, enabled) == st \in {403, 429} /\ enabled

\* a variant that looks at the status only
IsFetchFailureStatusOnly(st, h) == st # 200

\* if status != 200 or not html
IsFetchFailure(st, h) == st # 200 \/ h = ""

\* a variant whose try covers the fetches but not the parser
CaughtFetchOnly(where) == where # "parse"

\* except Exception: the try block covers both fetches and the parser
Caught(where) == where \in {"fetch", "render", "parse"}

\* a variant that appends nothing for a failed URL
WithRecordUnlessError(rs, r) == IF r.error # None THEN rs ELSE Append(rs, r)

\* results.append(...)
WithRecord(rs, r) == Append(rs, r)

\* an exception raised in the try block at where, with str(e) = msg: the except
\* branch appends the error record; an exception it does not catch leaves scrape_urls
Raise(where, msg) ==
    IF Caught(where)
    THEN /\ results' = WithRecord(results, ErrorRecord(urls[idx], msg))
         /\ causes' = Append(causes, where)
         /\ pc' = "appended"
    ELSE /\ pc' = "crashed"
         /\ UNCHANGED <<results, causes>>

\* status, html = fetch_with_requests(url)
ScrapeFetch(o) ==
    /\ pc = "loop"
    /\ fetch_log' = Append(fetch_log, <<"requests", idx>>)
    /\ IF o.kind = "response"
       THEN /\ status' = o.status
            /\ html' = o.html
            /\ direct' = o.status
            /\ pc' = "fetched"
            /\ UNCHANGED <<results, causes>>
       ELSE /\ Raise("fetch", o.msg)
            /\ UNCHANGED <<status, html, direct>>
    /\ UNCHANGED <<fallback, discoverVars, urls, idx, numbers, aloneVars>>

\* status, html = fetch_with_playwright(url), which returns 200 and the rendered page
ScrapePlaywright(o) ==
    /\ pc = "fetched"
    /\ NeedsFallback(status, fallback)
    /\ fetch_log' = Append(fetch_log, <<"playwright", idx>>)
    /\ IF o.kind = "response"
       THEN /\ status' = 200
            /\ html' = o.html
            /\ pc' = "rendered"
            /\ UNCHANGED <<results, causes>>
       ELSE /\ Raise("render", o.msg)
            /\ UNCHANGED <<status, html>>
    /\ UNCHANGED <<fallback, discoverVars, urls, idx, direct, numbers, aloneVars>>

\* the if/else on status and html: the error record, or the parser's record
ScrapeRecord ==
    /\ \/ pc = "fetched" /\ ~NeedsFallback(status, fallback)
       \/ pc = "rendered"
    /\ IF IsFetchFailure(status, html)
       THEN /\ results' = WithRecord(results, ErrorRecord(urls[idx], HttpError(status)))
            /\ causes' = Append(causes, IF status # 200 THEN "status" ELSE "empty")
            /\ pc' = "appended"
       ELSE IF html = RejectedMarkup
       THEN Raise("parse", ParseMessage)
       ELSE /\ results' = WithRecord(results, parse_page_generic(Document(html), urls[idx]))
            /\ causes' = Append(causes, "none")
            /\ pc' = "appended"
    /\ UNCHANGED <<fallback, discoverVars, urls, idx, status, html, direct, fetch_log, numbers, aloneVars>>

\* time.sleep(SLEEP_SECONDS), then the next URL or return results
ScrapeSleep ==
    /\ pc = "appended"
    /\ idx' = idx + 1
    /\ status' = 0 /\ html' = "" /\ direct' = 0
    /\ pc' = IF idx < Len(urls) THEN "loop" ELSE "scraped"
    /\ UNCHANGED <<fallback, discoverVars, urls, results, causes, fetch_log, numbers, aloneVars>>

----------------------------------------------------------------------------
(* __main__ *)

\* max_snippets_per_url the program passes
MaxSnippetsPerUrl == 6

MaxUrlsBound == 2
MaxRetries == 3
MaxArticles == 2

ArticleEntries == {Url1, <<" ">> \o Url1 \o <<"\n">>, Url2, None, <<>>, Malformed}

RECURSIVE ArticleListsOf(_)
ArticleListsOf(n) ==
    IF n = 0 THEN {<<>>}
    ELSE LET A == ArticleListsOf(n - 1) IN A \cup {Append(a, x) : a \in A, x \in ArticleEntries}

DiscoverOutcomes ==
    {[kind |-> "fail", articles |-> <<>>]}
    \cup {[kind |-> "ok", articles |-> a] : a \in ArticleListsOf(MaxArticles)}

Htmls == {"", "article", "nocontainer", RejectedMarkup}

RequestsOutcomes ==
    {[kind |-> "response", status |-> st, html |-> h, msg |-> <<>>] :
        st \in {200, 403, 429, 404}, h \in Htmls}
    \cup {[kind |-> "raise", status |-> 0, html |-> "", msg |-> m] : m \in {FetchMessage, <<>>}}

PlaywrightOutcomes ==
    {[kind |-> "response", status |-> 200, html |-> h, msg |-> <<>>] : h \in Htmls}
    \cup {[kind |-> "raise", status |-> 0, html |-> "", msg |-> RenderMessage]}

\* no call of discover_urls_gdelt is in progress
DiscoverIdle ==
    /\ max_urls = 0 /\ retries = 0 /\ d_query = 0 /\ d_attempt = 0
    /\ all_urls = <<>> /\ seen = {}
    /\ d_sent = 0 /\ d_total = 0 /\ d_last = "none"

ScrapeIdle ==
    /\ idx = 0 /\ status = 0 /\ html = "" /\ results = <<>> /\ direct = 0
    /\ causes = <<>> /\ fetch_log = <<>>

MainIdle ==
    /\ pc = "idle" /\ fallback = TRUE /\ DiscoverIdle /\ urls = <<>> /\ ScrapeIdle
    /\ numbers = <<>>

\* the program starts in discover_urls_gdelt(max_urls, retries), first query, first attempt
MainInit ==
    /\ pc = "discover"
    /\ fallback \in BOOLEAN
    /\ max_urls \in 1..MaxUrlsBound
    /\ retries \in 1..MaxRetries
    /\ d_query = 1 /\ d_attempt = 1
    /\ all_urls = <<>> /\ seen = {}
    /\ d_sent = 0 /\ d_total = 0 /\ d_last = "none"
    /\ urls = <<>>
    /\ ScrapeIdle
    /\ numbers = <<>>

Discover(o) ==
    /\ pc = "discover"
    /\ DiscoverStep(o)
    /\ UNCHANGED <<fallback, max_urls, retries, scrapeVars, numbers, aloneVars>>

\* urls = discover_urls_gdelt(...) has returned; rows = scrape_urls(urls) begins
ScrapeStart ==
    /\ pc = "discovered"
    /\ max_urls' = 0 /\ retries' = 0 /\ d_query' = 0 /\ d_attempt' = 0
    /\ all_urls' = <<>> /\ seen' = {}
    /\ d_sent' = 0 /\ d_total' = 0 /\ d_last' = "none"
    /\ idx' = 1
    /\ pc' = IF urls = <<>> THEN "scraped" ELSE "loop"
    /\ UNCHANGED <<fallback, urls, status, html, results, direct, causes, fetch_log, numbers, aloneVars>>

\* numbers = build_numbers_table(rows, max_snippets_per_url=6)
Build ==
    /\ pc = "scraped"
    /\ numbers' = build_numbers_table(results, MaxSnippetsPerUrl)
    /\ pc' = "done"
    /\ UNCHANGED <<fallback, discoverVars, urls, scrapeVars, aloneVars>>

----------------------------------------------------------------------------
(* Specifications *)

\* extract_percent_and_time_snippets applied to every input
MineNext == Mine /\ UNCHANGED <<bodyVars, tableVars, mainVars>>
MineOnlyInit == MineInit /\ BodyIdle /\ TableIdle /\ MainIdle
SpecMine == MineOnlyInit /\ [][MineNext]_vars

\* extract_body_generic applied to every input
BodyNext == ExtractBody /\ UNCHANGED <<mineVars, tableVars, mainVars>>
BodyOnlyInit == BodyInit /\ MineIdle /\ TableIdle /\ MainIdle
SpecBody == BodyOnlyInit /\ [][BodyNext]_vars

\* build_numbers_table applied to every input
TableNext == BuildTable /\ UNCHANGED <<mineVars, bodyVars, mainVars>>
TableOnlyInit == TableInit /\ MineIdle /\ BodyIdle /\ MainIdle
SpecTable == TableOnlyInit /\ [][TableNext]_vars

\* the program: discovery, the scraping loop, the numbers table
Next ==
    \/ \E o \in DiscoverOutcomes : Discover(o)
    \/ ScrapeStart
    \/ \E o \in RequestsOutcomes : ScrapeFetch(o)
    \/ \E o \in PlaywrightOutcomes : ScrapePlaywright(o)
    \/ ScrapeRecord
    \/ ScrapeSleep
    \/ Build
Init == MainInit /\ MineIdle /\ BodyIdle /\ TableIdle
Spec == Init /\ [][Next]_vars

\* discovery runs on: the loop of discover_urls_gdelt is sequential code and every
\* request returns or raises within its timeout
SpecFair == Spec /\ WF_vars(\E o \in DiscoverOutcomes : Discover(o))

----------------------------------------------------------------------------
(* Claims *)

\* what the claims about the scraping loop read
Failures == {"fetch", "render", "parse"}
FetchFailures == {"status", "empty", "fetch", "render"}
Blocked == {403, 429}
Started(fetcher, i) == {k \in 1..Len(fetch_log) : fetch_log[k] = <<fetcher, i>>}
ContentAbsent(r) ==
    /\ r.title = None /\ r.author = None /\ r.published_date = None
    /\ r.description = None /\ r.body = None
\* each record's cause agrees with what the loop held when the record was appended
CauseMatchesFetch ==
    pc = "appended" =>
        /\ Len(causes) = idx /\ Len(results) = idx
        /\ causes[idx] = "status" => (direct # 0 /\ status # 200)
        /\ causes[idx] = "empty" => (direct # 0 /\ status = 200 /\ html = "")
        /\ causes[idx] \in {"none", "parse"} => (direct # 0 /\ status = 200 /\ html # "")
        /\ causes[idx] = "fetch" => (direct = 0 /\ Started("playwright", idx) = {})
        /\ causes[idx] = "render" => (direct \in Blocked /\ Started("playwright", idx) # {})

(* C1: scrape_urls returns one record per input URL, in input order, whatever *)
(* each fetch and parse does: the i-th record carries the i-th URL.           *)
C1_OneRecordPerUrl ==
    /\ pc # "crashed"
    /\ Len(results) <= Len(urls)
    /\ \A i \in 1..Len(results) : results[i].url = urls[i]
    /\ pc \in {"scraped", "done"} => Len(results) = Len(urls)

\* two URLs scraped, the first failed and the second parsed
C1_Witness ==
    /\ pc = "scraped"
    /\ Len(urls) = 2 /\ Len(results) = 2
    /\ causes[1] # "none" /\ causes[2] = "none"
    /\ results[1].url = urls[1] /\ results[2].url = urls[2]

(* C2: an exception in the direct fetch, the rendered fetch or the parser is  *)
(* caught and becomes an error record for its URL; it never leaves            *)
(* scrape_urls; the later URLs are still fetched and get their records; the   *)
(* records already appended do not change.                                    *)
C2_FailuresIsolated ==
    /\ [](/\ pc # "crashed"
          /\ \A i \in 1..Len(causes) :
                causes[i] \in Failures =>
                    /\ i <= Len(results)
                    /\ results[i].error # None
                    /\ results[i].url = urls[i]
          /\ pc \in {"scraped", "done"} =>
                /\ Len(results) = Len(urls)
                /\ \A i \in 1..Len(urls) : Started("requests", i) # {})
    /\ [][/\ Len(results') >= Len(results)
          /\ \A k \in 1..Len(results) : results'[k] = results[k]]_vars

\* the rendered fetch of the first URL raised, the second URL was still fetched, and
\* its parse raised
C2_Witness ==
    /\ pc = "scraped"
    /\ Len(urls) = 2
    /\ causes = <<"render", "parse">>
    /\ Started("requests", 2) # {}
    /\ results[1].error = RenderMessage /\ results[2].error = ParseMessage

(* C3 as stated: error is set exactly when the fetch failed (final status not *)
(* 200, empty html, or an exception in a fetch).                              *)
C3_ErrorIffFetchFailure ==
    \A i \in 1..Len(results) : (results[i].error # None) <=> (causes[i] \in FetchFailures)

(* C3 amended: error is set exactly when the fetch failed (final status not   *)
(* 200, empty html, an exception in a fetch) or the parser raised; a page     *)
(* fetched with status 200 that has no content container gives a record with  *)
(* body absent and error absent.                                              *)
C3_ErrorIffFetchOrParseFailure ==
    /\ CauseMatchesFetch
    /\ Len(causes) = Len(results)
    /\ \A i \in 1..Len(results) :
          (results[i].error # None) <=> (causes[i] \in FetchFailures \cup {"parse"})
    /\ (pc = "appended" /\ status = 200 /\ html # "" /\ html # RejectedMarkup
        /\ FirstContainer(Document(html).soup) = NoElement)
          => (results[idx].body = None /\ results[idx].error = None)

\* a page without container was fetched with 200: body and error are both absent
C3_Witness ==
    /\ pc = "appended"
    /\ status = 200 /\ html = "nocontainer"
    /\ results[idx].body = None /\ results[idx].error = None
    /\ results[idx].title # None

(* C4: in every record error and a populated body exclude each other, and     *)
(* when error is set title, author, published_date, description and body are  *)
(* all absent.                                                                *)
C4_ErrorExcludesContent ==
    \A i \in 1..Len(results) :
        /\ ~(results[i].error # None /\ Truthy(results[i].body))
        /\ results[i].error # None => ContentAbsent(results[i])

\* an error record next to a record with a body
C4_Witness ==
    /\ Len(results) = 2
    /\ results[1].error # None /\ ContentAbsent(results[1])
    /\ results[2].error = None /\ Truthy(results[2].body)

(* C5: the rendered fetch is started for a URL exactly when its direct fetch  *)
(* returned 403 or 429 and the fallback is enabled; at most once, after the   *)
(* direct fetch; its result stands with status 200.  A blocked status with    *)
(* the fallback disabled, or any other status that is not 200, is not         *)
(* escalated or retried and becomes the URL's error record.                   *)
C5_FallbackOnlyWhenBlocked ==
    /\ \A i \in 1..Len(urls) :
          /\ Cardinality(Started("requests", i)) <= 1
          /\ Cardinality(Started("playwright", i)) <= 1
          /\ \A k \in Started("playwright", i) : \E j \in Started("requests", i) : j < k
    /\ pc \in {"fetched", "rendered", "appended"} =>
          /\ Started("playwright", idx) # {} => (direct \in Blocked /\ fallback)
          /\ (pc # "fetched" /\ direct \in Blocked /\ fallback) => Started("playwright", idx) # {}
    /\ pc = "rendered" => status = 200
    /\ (pc = "appended" /\ Started("playwright", idx) # {} /\ causes[idx] # "render")
          => (status = 200 /\ causes[idx] # "status")
    /\ (pc = "appended" /\ direct \notin {0, 200} /\ ~(direct \in Blocked /\ fallback)) =>
          /\ Started("playwright", idx) = {}
          /\ Cardinality(Started("requests", idx)) = 1
          /\ results[idx] = ErrorRecord(urls[idx], HttpError(direct))
          /\ results[idx].error # None

\* a 403 with the fallback enabled was rendered and parsed
C5_Witness ==
    /\ pc = "appended"
    /\ fallback /\ direct = 403
    /\ Cardinality(Started("playwright", idx)) = 1
    /\ status = 200
    /\ results[idx].error = None

\* what the claim about discovery reads
NoDuplicates(sq) == \A i \in 1..Len(sq) : \A j \in 1..Len(sq) : i # j => sq[i] # sq[j]

(* C10: discover_urls_gdelt sends at most retries requests per query and none *)
(* after the query's first successful response; it terminates; it ends in the *)
(* fatal error exactly when no URL was collected over all queries, and then   *)
(* no page fetch is ever started; otherwise it returns at most max_urls URLs  *)
(* without duplicates.                                                        *)
C10_DiscoveryBounded ==
    /\ [](/\ d_sent <= retries
          /\ d_total <= NumQueries * retries
          /\ pc = "discover" =>
                /\ d_sent < retries
                /\ d_total < NumQueries * retries
                /\ d_sent > 0 => d_last = "raised"
          /\ pc \in {"discover", "discovered", "fatal"} => fetch_log = <<>>
          /\ pc = "fatal" =>
                /\ all_urls = <<>> /\ urls = <<>>
                /\ d_query = NumQueries /\ d_total >= NumQueries
          /\ pc = "discovered" =>
                /\ all_urls # <<>>
                /\ urls # <<>> /\ Len(urls) <= max_urls /\ NoDuplicates(urls)
                /\ urls = SubSeq(all_urls, 1, Len(urls)))
    /\ [][/\ pc = "discover" => d_total' = d_total + 1
          /\ pc = "fatal" => (pc' = "fatal" /\ fetch_log' = <<>>)]_vars
    /\ <>(pc # "discover")

\* every query used up its three attempts and the run ended in the fatal error
C10_Witness ==
    /\ pc = "fatal"
    /\ retries = 3
    /\ d_sent = 3
    /\ d_total = 3 * NumQueries
    /\ fetch_log = <<>>

\* what the claims about body assembly read: the first matching container of the
\* input, and its paragraphs that are neither empty nor boilerplate
C9_Container == FirstContainer(b_soup)
C9_Retained == RetainedParagraphs(C9_Container)
C9_BlankLine == <<"\n", "\n">>

(* C9 as stated: empty and boilerplate paragraphs are dropped; a photo credit *)
(* that is the first retained paragraph is dropped; if no paragraphs remain   *)
(* the body is the container's normalised full text, otherwise the remaining  *)
(* paragraphs joined by a blank line.                                         *)
C9_CreditAlwaysDropped ==
    (b_pc = "returned" /\ C9_Container # NoElement) =>
        LET rest == IF C9_Retained # <<>> /\ IsPhotoCredit(C9_Retained[1])
                    THEN Tail(C9_Retained) ELSE C9_Retained
        IN b_body = IF rest = <<>> THEN clean(GetText(AllStrings(C9_Container)))
                    ELSE JoinWith(C9_BlankLine, rest)

(* C9 amended: a photo credit that is the first retained paragraph is dropped *)
(* only when at least one more paragraph is retained; a lone photo credit is  *)
(* the body.  With no retained paragraph the body is the container's          *)
(* normalised full text; otherwise the retained paragraphs in document order  *)
(* joined by a blank line.  Without a container the body is absent.           *)
C9_CreditDroppedUnlessAlone ==
    b_pc = "returned" =>
        /\ C9_Container = NoElement => b_body = None
        /\ (C9_Container # NoElement /\ C9_Retained = <<>>)
              => b_body = clean(GetText(AllStrings(C9_Container)))
        /\ (C9_Container # NoElement /\ Len(C9_Retained) = 1)
              => b_body = C9_Retained[1]
        /\ (C9_Container # NoElement /\ Len(C9_Retained) > 1 /\ IsPhotoCredit(C9_Retained[1]))
              => b_body = JoinWith(C9_BlankLine, Tail(C9_Retained))
        /\ (C9_Container # NoElement /\ Len(C9_Retained) > 1 /\ ~IsPhotoCredit(C9_Retained[1]))
              => b_body = JoinWith(C9_BlankLine, C9_Retained)

\* a lone photo credit kept as the body although the container holds more text
C9_Witness ==
    /\ b_pc = "returned"
    /\ C9_Container # NoElement
    /\ Len(C9_Retained) = 1
    /\ IsPhotoCredit(C9_Retained[1])
    /\ b_body = C9_Retained[1]
    /\ clean(GetText(AllStrings(C9_Container))) # b_body

\* what the claim about the numbers table reads: the snippets mined for input record
\* i, how many rows the claim gives it, and where its rows start in the output
C8_Mined(i) ==
    extract_percent_and_time_snippets(Combined(t_rows[i]), TableWindow, TableMaxHits)
C8_Count(i) ==
    IF t_rows[i].error # None THEN 0 ELSE Min2(Len(C8_Mined(i)), t_cap)
RECURSIVE C8_Offset(_)
C8_Offset(i) == IF i = 1 THEN 0 ELSE C8_Offset(i - 1) + C8_Count(i - 1)

(* C8: build_numbers_table emits, for each record without error that has n   *)
(* mined snippets, exactly min(n, max_snippets_per_url) rows, equal to the    *)
(* first snippets in mined order; no row for a record with error set; and the *)
(* rows of different records in the records' order.                           *)
C8_RowsPerRecord ==
    t_pc = "returned" =>
        /\ Len(t_out) = C8_Offset(Len(t_rows) + 1)
        /\ \A i \in 1..Len(t_rows) : \A k \in 1..C8_Count(i) :
               LET row == t_out[C8_Offset(i) + k]
                   hit == C8_Mined(i)[k]
               IN /\ row.url = t_rows[i].url
                  /\ row.site = t_rows[i].site
                  /\ row.title = t_rows[i].title
                  /\ row.published_date = t_rows[i].published_date
                  /\ row.metric_type = hit.metric_type
                  /\ row.value = hit.value
                  /\ row.context_snippet = hit.snippet

\* a record with more snippets than the cap of 6 gets 6 rows, after an error record
\* that gets none
C8_Witness ==
    /\ t_pc = "returned"
    /\ t_cap = 6
    /\ Len(t_rows) = 2
    /\ t_rows[1].error # None
    /\ t_rows[2].error = None
    /\ Len(C8_Mined(2)) > 6
    /\ Len(t_out) = 6

(* C6: extract_percent_and_time_snippets never returns more than max_hits    *)
(* snippets, and every returned snippet contains a change keyword, ignoring  *)
(* case.  (Fails: the cap is tested after the append, so max_hits = 0        *)
(* returns one snippet.)                                                      *)
C6_CapAndChangeContext ==
    m_pc = "returned" =>
        /\ Len(m_hits) <= m_max_hits
        /\ \A k \in 1..Len(m_hits) :
               \E w \in 1..Len(CHANGE_KEYWORDS) :
                   Contains(Lower(m_hits[k].snippet), CHANGE_KEYWORDS[w])

(* C7 as stated: percent hits before time hits, and within each type the     *)
(* hits in increasing position of their match in the text.                   *)
C7_SourceOrderWithinType ==
    m_pc = "returned" =>
        \A i \in 1..Len(m_trace) : \A j \in 1..Len(m_trace) :
            i < j =>
                /\ ~(m_trace[i].metric_type = "time" /\ m_trace[j].metric_type = "percent")
                /\ (m_trace[i].metric_type = m_trace[j].metric_type
                        => m_trace[i].at <= m_trace[j].at)

(* C7 amended: percent hits come before time hits; within a type the hits    *)
(* are grouped by pattern, in the order of the pattern list; and the hits of *)
(* one pattern are in strictly increasing position of their match.           *)
C7_PatternThenSourceOrder ==
    m_pc = "returned" =>
        /\ m_hits = HitsOf(m_trace)
        /\ \A i \in 1..Len(m_trace) : \A j \in 1..Len(m_trace) :
            i < j =>
                /\ ~(m_trace[i].metric_type = "time" /\ m_trace[j].metric_type = "percent")
                /\ (m_trace[i].metric_type = m_trace[j].metric_type
                        => m_trace[i].pat <= m_trace[j].pat)
                /\ (m_trace[i].metric_type = m_trace[j].metric_type
                    /\ m_trace[i].pat = m_trace[j].pat
                        => m_trace[i].at < m_trace[j].at)

\* three hits: two percent hits of different patterns, the later one found earlier
\* in the text, then a time hit found before both
C7_Witness ==
    /\ m_pc = "returned"
    /\ Len(m_trace) = 3
    /\ m_trace[1].metric_type = "percent" /\ m_trace[2].metric_type = "percent"
    /\ m_trace[1].pat < m_trace[2].pat
    /\ m_trace[2].at < m_trace[1].at
    /\ m_trace[3].metric_type = "time"
    /\ m_trace[3].at < m_trace[2].at

====
